---- MODULE Spec2Model ----
(***************************************************************************)
(* A model of the random-walk jigsaw generator of src/__init__.py: the     *)
(* grid of Dot objects, the seeding of pieces (initiate_pieces), one       *)
(* generation of growth (step), the convergence loop (steps), the filling  *)
(* pass (complete) and the count() query.                                  *)
(*                                                                         *)
(* Representation choices:                                                 *)
(*  - a coordinate is a pair <<i, j>>; jigsaw maps every coordinate of the *)
(*    res x res array to a record of the Dot's color, active, empty and    *)
(*    bonds fields.  Dot.neighbors is a pure function of Dot.coords and is *)
(*    the operator neighbors; Dot.free_neighbors is rewritten by step      *)
(*    before each read and is a local of StepCell.                         *)
(*  - Dot.bonds is a Python list that the program only appends to and      *)
(*    only tests with "in": it is modelled by the set of its elements.     *)
(*  - active_cells and new_active_cells are Python lists.  Every reader of *)
(*    active_cells either shuffles it first (step), asks whether it is     *)
(*    empty (steps), or scans it for any element closer than min_dist      *)
(*    (initiate_pieces), so the list is modelled by the bag of its         *)
(*    elements: np.random.shuffle followed by the for loop visits the      *)
(*    elements of the bag in an arbitrary order.                           *)
(*  - np.random.rand() is a draw r/ProbDenom with r in 0..ProbDenom-1, and *)
(*    grow_prop is a numerator over the same denominator.                  *)
(*  - pc is the call stack: the names of the active frames, innermost      *)
(*    last.  <<>> is the state between two calls of the public methods.    *)
(***************************************************************************)
EXTENDS Integers, Sequences, FiniteSets, Bags, TLC

VARIABLES
    res,              \* Jigsaw.res: side of the array, border included
    bordertype,       \* the bordertype argument of the constructor
    jigsaw,           \* Jigsaw.jigsaw: coordinate -> Dot fields
    num_pieces,       \* Jigsaw.num_pieces
    active_cells,     \* Jigsaw.active_cells (bag of coordinates)
    pc,               \* call stack
    c,                \* initiate_pieces: piece index of the for loop
    n,                \* initiate_pieces: attempts made for piece c
    min_dist,         \* initiate_pieces: argument
    placed,           \* initiate_pieces: seeds placed by the last call
    todo,             \* step: the part of the shuffled list not yet visited
    new_active_cells, \* step: local list
    grow_prop,        \* step: argument (numerator over ProbDenom)
    k,                \* steps: loop variable _
    steps,            \* steps: argument
    pos,              \* complete and the mask loops: cells (rows) already scanned
    printed           \* messages printed by the running or last steps call

vars == <<res, bordertype, jigsaw, num_pieces, active_cells, pc, c, n,
          min_dist, placed, todo, new_active_cells, grow_prop, k, steps,
          pos, printed>>

-----------------------------------------------------------------------------
(* Bounds of the model *)

\* Interior resolution passed to the constructor (Jigsaw(res=Res)).
Res == 3
\* Interior resolution of the small grid, on which initiate_pieces may be
\* called any number of times.
SmallRes == 2
\* Largest num_pieces passed to initiate_pieces.
MaxPieces == 2
\* Largest min_dist passed to initiate_pieces.
MaxMinDist == 2
\* Largest steps argument passed to steps by a caller.
MaxSteps == 2
\* Denominator of the modelled probabilities.
ProbDenom == 2

(* Program constants *)

\* Dot.color before the cell is claimed.
None == 0
\* Attempts per piece in initiate_pieces.
MaxAttempts == 1000
\* Color of the cells claimed by complete.
FillerColor == 1000
\* steps argument used by complete.
FillerSteps == 1000

-----------------------------------------------------------------------------
(* The grid *)

Coords(R) == (0 .. R - 1) \X (0 .. R - 1)

\* Dot.__init__
Dot == [color |-> None, active |-> TRUE, empty |-> TRUE, bonds |-> {}]

\* Dot.__init__, line 17: the offsets of the four neighbours.
Shift == <<  <<1, 1>>, <<-1, 1>>, <<-1, -1>>, <<1, -1>>  >>

\* Mutant of neighbors: the four edge neighbours in place of the diagonal ones.
neighborsOrthogonal(coords) ==
    [i \in 0 .. 3 |->
        <<coords[1] + (IF i = 0 THEN 1 ELSE IF i = 2 THEN -1 ELSE 0),
          coords[2] + (IF i = 1 THEN 1 ELSE IF i = 3 THEN -1 ELSE 0)>>]

\* Dot.neighbors: the four diagonal neighbours, indexed 0..3.
neighbors(coords) ==
    [i \in 0 .. 3 |-> <<coords[1] + Shift[i + 1][1], coords[2] + Shift[i + 1][2]>>]

\* numpy indexing of one axis of length R: a negative index counts from the end.
NpIndex(a, R) == IF a < 0 THEN a + R ELSE a
\* numpy raises IndexError for an index outside -R .. R-1.
IndexError(p, R) == \E a \in {p[1], p[2]} : a >= R \/ a < -R
\* self.jigsaw[p]
At(jig, p, R) == jig[<<NpIndex(p[1], R), NpIndex(p[2], R)>>]

Walled == [Dot EXCEPT !.active = FALSE, !.empty = FALSE]

\* Jigsaw.border_mask: the cells (i,0), (i,-1), (0,i), (-1,i).
border_mask(R) ==
    LET ring == UNION {{<<i, 0>>, <<i, R - 1>>, <<0, i>>, <<R - 1, i>>} : i \in 0 .. R - 1}
    IN  [x \in Coords(R) |-> IF x \in ring THEN Walled ELSE Dot]

\* Mutant of CircleOutside: x = i - R/2, the half-cell offset is left out.
CircleOutsideOffCentre(i, j, R) ==
    \/ 5 * R - 11 < 0
    \/ 25 * ((2 * i - R) * (2 * i - R) + (2 * j - R) * (2 * j - R))
          > (5 * R - 11) * (5 * R - 11)

\* Mutant of CircleOutside: the radius is R/2 - 0.1.
CircleOutsideWide(i, j, R) ==
    25 * ((2 * i - R + 1) * (2 * i - R + 1) + (2 * j - R + 1) * (2 * j - R + 1))
        > (5 * R - 1) * (5 * R - 1)

\* Jigsaw.circle_mask: sqrt(x^2 + y^2) > R/2 - 1.1 with x = i - R/2 + 1/2.
\* Scaled by 10: 5*sqrt((2i-R+1)^2 + (2j-R+1)^2) > 5R - 11; the two sides are
\* never equal, since (5R-11)^2 is not a multiple of 25.
CircleOutside(i, j, R) ==
    \/ 5 * R - 11 < 0
    \/ 25 * ((2 * i - R + 1) * (2 * i - R + 1) + (2 * j - R + 1) * (2 * j - R + 1))
          > (5 * R - 11) * (5 * R - 11)
circle_mask(R) ==
    [x \in Coords(R) |-> IF CircleOutside(x[1], x[2], R) THEN Walled ELSE Dot]

\* Jigsaw.__init__
Construct(r, bt) ==
    /\ res = r + 2
    /\ bordertype = bt
    /\ jigsaw = IF bt = "circ" THEN circle_mask(r + 2) ELSE border_mask(r + 2)
    /\ num_pieces = 0
    /\ active_cells = EmptyBag

\* The locals of the methods when no call is running.
NoLocals ==
    /\ c = 0 /\ n = 0 /\ min_dist = 0
    /\ todo = EmptyBag /\ new_active_cells = EmptyBag /\ grow_prop = 0
    /\ k = 0 /\ steps = 0 /\ pos = 0

\* The state after Jigsaw(res=r, bordertype=bt).
Constructed(r, bt) ==
    /\ Construct(r, bt)
    /\ pc = <<>>
    /\ placed = 0
    /\ printed = <<>>
    /\ NoLocals

Init ==
    \/ \E bt \in {"rect", "circ"} : Constructed(Res, bt)
    \/ Constructed(SmallRes, "rect")

Top == IF pc = <<>> THEN "idle" ELSE pc[Len(pc)]
Pop == SubSeq(pc, 1, Len(pc) - 1)
Add(bag, x) == bag (+) SetToBag({x})
\* Mutant of Remove: the visited cell stays in the list.
RemoveKeeps(bag, x) == bag
Remove(bag, x) == bag (-) SetToBag({x})

-----------------------------------------------------------------------------
(* step *)

\* Mutant of FreeNeighbors: tests the active flag instead of the empty flag.
FreeNeighborsActive(jig, coo, R) ==
    {i \in 0 .. 3 : At(jig, neighbors(coo)[i], R).active}

\* Mutant of FreeNeighbors: the last neighbour is never looked at.
FreeNeighborsButLast(jig, coo, R) ==
    {i \in 0 .. 2 : At(jig, neighbors(coo)[i], R).empty}

\* Mutant of FreeNeighbors: the test of the empty flag is inverted.
FreeNeighborsNotEmpty(jig, coo, R) ==
    {i \in 0 .. 3 : ~At(jig, neighbors(coo)[i], R).empty}

\* step, lines 108-111: indices of the neighbours that are empty.
FreeNeighbors(jig, coo, R) ==
    {i \in 0 .. 3 : At(jig, neighbors(coo)[i], R).empty}

\* Mutant of Blocked: only the bonds of the upper cell are looked at.
BlockedUpperOnly(jig, coo, R) ==
    LET upper_n == At(jig, <<coo[1], coo[2] + 1>>, R)
    IN  (IF 3 \in upper_n.bonds THEN {0} ELSE {})
        \cup (IF 2 \in upper_n.bonds THEN {1} ELSE {})

\* step, lines 114-123: bonds of the upper and lower cells block neighbours.
Blocked(jig, coo, R) ==
    LET upper_n == At(jig, <<coo[1], coo[2] + 1>>, R)
        lower_n == At(jig, <<coo[1], coo[2] - 1>>, R)
    IN  (IF 3 \in upper_n.bonds THEN {0} ELSE {})
        \cup (IF 2 \in upper_n.bonds THEN {1} ELSE {})
        \cup (IF 1 \in lower_n.bonds THEN {2} ELSE {})
        \cup (IF 0 \in lower_n.bonds THEN {3} ELSE {})

Eligible(jig, coo, R) == FreeNeighbors(jig, coo, R) \ Blocked(jig, coo, R)

\* The cells step reads for the cell at coo.
Lookups(coo) ==
    {neighbors(coo)[i] : i \in 0 .. 3}
        \cup {<<coo[1], coo[2] + 1>>, <<coo[1], coo[2] - 1>>}

\* Mutant of Claim: the claimed cell gets the next color.
ClaimNextColor(jig, coo, nb_idx, R) ==
    LET me   == <<NpIndex(coo[1], R), NpIndex(coo[2], R)>>
        nb   == neighbors(coo)[nb_idx]
        link == <<NpIndex(nb[1], R), NpIndex(nb[2], R)>>
        j1   == [jig EXCEPT ![link] =
                    [color  |-> jig[me].color + 1,
                     active |-> TRUE,
                     empty  |-> FALSE,
                     bonds  |-> @.bonds \cup {(nb_idx + 2) % 4}]]
    IN  [j1 EXCEPT ![me].bonds = @ \cup {nb_idx}]

\* Mutant of Claim: the bond of the claimed cell points the same way as the
\* bond of the claiming cell.
ClaimSameDirection(jig, coo, nb_idx, R) ==
    LET me   == <<NpIndex(coo[1], R), NpIndex(coo[2], R)>>
        nb   == neighbors(coo)[nb_idx]
        link == <<NpIndex(nb[1], R), NpIndex(nb[2], R)>>
        j1   == [jig EXCEPT ![link] =
                    [color  |-> jig[me].color,
                     active |-> TRUE,
                     empty  |-> FALSE,
                     bonds  |-> @.bonds \cup {nb_idx}]]
    IN  [j1 EXCEPT ![me].bonds = @ \cup {nb_idx}]

\* step, lines 130-135: the cell at coo claims its neighbour nb_idx.
Claim(jig, coo, nb_idx, R) ==
    LET me   == <<NpIndex(coo[1], R), NpIndex(coo[2], R)>>
        nb   == neighbors(coo)[nb_idx]
        link == <<NpIndex(nb[1], R), NpIndex(nb[2], R)>>
        j1   == [jig EXCEPT ![link] =
                    [color  |-> jig[me].color,
                     active |-> TRUE,
                     empty  |-> FALSE,
                     bonds  |-> @.bonds \cup {(nb_idx + 2) % 4}]]
    IN  [j1 EXCEPT ![me].bonds = @ \cup {nb_idx}]

\* Mutant of Deactivate: the cell is dropped from the list but keeps its flag.
DeactivateKeepsFlag(jig, coo, R) == jig

\* step, lines 124-126.
Deactivate(jig, coo, R) ==
    [jig EXCEPT ![<<NpIndex(coo[1], R), NpIndex(coo[2], R)>>].active = FALSE]

\* Mutant of Grows: the draw is compared with <=.
GrowsOrEqual(r, gp) == r <= gp

\* Mutant of Grows: the largest draw never grows.
GrowsStrict(r, gp) == r + 1 < gp

\* step, line 129: np.random.rand() < grow_prop
Grows(r, gp) == r < gp

\* step, lines 102-104: the call, up to the shuffle.
StepBegin(gp) ==
    /\ todo' = active_cells
    /\ new_active_cells' = EmptyBag
    /\ grow_prop' = gp

\* step: a call of the public method.
StepCall ==
    /\ pc = <<>>
    /\ \E gp \in 0 .. ProbDenom : StepBegin(gp)
    /\ pc' = <<"step">>
    /\ printed' = <<>>
    /\ UNCHANGED <<res, bordertype, jigsaw, num_pieces, active_cells, c, n,
                   min_dist, placed, k, steps, pos>>

\* step, lines 105-138: one iteration of the for loop.
StepCell ==
    /\ Top = "step"
    /\ \E coo \in BagToSet(todo) :
         /\ todo' = Remove(todo, coo)
         /\ IF \E p \in Lookups(coo) : IndexError(p, res)
            THEN /\ pc' = <<"IndexError">>
                 /\ UNCHANGED <<jigsaw, new_active_cells>>
            ELSE /\ pc' = pc
                 /\ \/ /\ Eligible(jigsaw, coo, res) = {}
                       /\ jigsaw' = Deactivate(jigsaw, coo, res)
                       /\ UNCHANGED new_active_cells
                    \/ \E nb_idx \in Eligible(jigsaw, coo, res) :
                       \E r \in 0 .. ProbDenom - 1 :
                         \/ /\ Grows(r, grow_prop)
                            /\ jigsaw' = Claim(jigsaw, coo, nb_idx, res)
                            /\ new_active_cells' =
                                 Add(Add(new_active_cells, neighbors(coo)[nb_idx]), coo)
                         \/ /\ ~Grows(r, grow_prop)
                            /\ jigsaw' = jigsaw
                            /\ new_active_cells' = Add(new_active_cells, coo)
    /\ UNCHANGED <<res, bordertype, num_pieces, active_cells, c, n, min_dist,
                   placed, grow_prop, k, steps, pos, printed>>

\* step, line 139, and the return to the caller.
StepReturn ==
    /\ Top = "step"
    /\ todo = EmptyBag
    /\ active_cells' = new_active_cells
    /\ new_active_cells' = EmptyBag
    /\ pc' = Pop
    /\ grow_prop' = IF Len(pc) = 1 THEN 0 ELSE grow_prop
    /\ UNCHANGED <<res, bordertype, jigsaw, num_pieces, c, n, min_dist, placed,
                   todo, k, steps, pos, printed>>

-----------------------------------------------------------------------------
(* steps *)

Converged(at) == [msg |-> "Converged", at |-> at]
DidNotConverge(max) == [msg |-> "DidNotConverge", at |-> max]

\* steps, line 142: the entry into the method.
StepsBegin(s, gp) ==
    /\ k' = 0
    /\ steps' = s
    /\ grow_prop' = gp
    /\ printed' = <<>>

\* The arguments of the explored calls of steps: a small budget with any
\* growth probability, or a budget of the grid area with grow_prop=1.
StepsArgs ==
    ((0 .. MaxSteps) \X (0 .. ProbDenom)) \cup {<<res * res, ProbDenom>>}

\* steps: a call of the public method, steps(s, grow_prop=gp).
StepsCall ==
    /\ pc = <<>>
    /\ \E a \in StepsArgs : StepsBegin(a[1], a[2])
    /\ pc' = <<"steps">>
    /\ UNCHANGED <<res, bordertype, jigsaw, num_pieces, active_cells, c, n,
                   min_dist, placed, todo, new_active_cells, pos>>

\* steps, lines 144-145: the loop takes another value of range(steps) and
\* calls step.
StepsLoop ==
    /\ Top = "steps"
    /\ k < steps
    /\ StepBegin(grow_prop)
    /\ pc' = Pop \o <<"steps_check", "step">>
    /\ UNCHANGED <<res, bordertype, jigsaw, num_pieces, active_cells, c, n,
                   min_dist, placed, k, steps, pos, printed>>

\* Mutant of NoActiveCells: the test is inverted.
SomeActiveCells(act) == act # EmptyBag

\* steps, line 146: not self.active_cells
NoActiveCells(act) == act = EmptyBag

\* steps, lines 146-148: after step has returned.
StepsCheck ==
    /\ Top = "steps_check"
    /\ \/ /\ NoActiveCells(active_cells)
          /\ printed' = Append(printed, Converged(k))
          /\ pc' = Pop
          /\ k' = 0
          /\ steps' = 0
          /\ grow_prop' = 0
       \/ /\ ~NoActiveCells(active_cells)
          /\ k' = k + 1
          /\ pc' = Pop \o <<"steps">>
          /\ UNCHANGED <<steps, grow_prop, printed>>
    /\ UNCHANGED <<res, bordertype, jigsaw, num_pieces, active_cells, c, n,
                   min_dist, placed, todo, new_active_cells, pos>>

\* steps, lines 149-150: range(steps) is exhausted, the else branch of the for.
StepsExhausted ==
    /\ Top = "steps"
    /\ k = steps
    /\ printed' = Append(printed, DidNotConverge(steps))
    /\ pc' = Pop
    /\ k' = 0
    /\ steps' = 0
    /\ grow_prop' = 0
    /\ UNCHANGED <<res, bordertype, jigsaw, num_pieces, active_cells, c, n,
                   min_dist, placed, todo, new_active_cells, pos>>

-----------------------------------------------------------------------------
(* complete *)

\* Mutant of Fill: the cell gets the filler color and stays empty.
FillColorOnly(jig, x) == [jig EXCEPT ![x].color = FillerColor]

\* complete, lines 160-161.
Fill(jig, x) == [jig EXCEPT ![x].empty = FALSE, ![x].color = FillerColor]

\* complete: a call of the public method.
CompleteCall ==
    /\ pc = <<>>
    /\ pc' = <<"complete">>
    /\ pos' = 0
    /\ printed' = <<>>
    /\ UNCHANGED <<res, bordertype, jigsaw, num_pieces, active_cells, c, n,
                   min_dist, placed, todo, new_active_cells, grow_prop, k,
                   steps>>

\* complete, lines 156-163: one iteration of the nested for loops, at the
\* cell (pos div res, pos mod res).  steps(1000) runs step with its default
\* grow_prop=1.
CompleteScan ==
    /\ Top = "complete"
    /\ pos < res * res
    /\ pos' = pos + 1
    /\ LET x == <<pos \div res, pos % res>>
           d == jigsaw[x]
       IN  \/ /\ d.empty /\ d.active
              /\ jigsaw' = Fill(jigsaw, x)
              /\ active_cells' = Add(active_cells, x)
              /\ StepsBegin(FillerSteps, ProbDenom)
              /\ pc' = pc \o <<"steps">>
           \/ /\ ~(d.empty /\ d.active)
              /\ UNCHANGED <<jigsaw, active_cells, pc, k, steps, grow_prop, printed>>
    /\ UNCHANGED <<res, bordertype, num_pieces, c, n, min_dist, placed, todo,
                   new_active_cells>>

\* complete: both for loops are exhausted.
CompleteReturn ==
    /\ Top = "complete"
    /\ pos = res * res
    /\ pc' = Pop
    /\ pos' = 0
    /\ UNCHANGED <<res, bordertype, jigsaw, num_pieces, active_cells, c, n,
                   min_dist, placed, todo, new_active_cells, grow_prop, k,
                   steps, printed>>

-----------------------------------------------------------------------------
(* initiate_pieces *)

\* Mutant of TooClose: the squared distance is compared with min_dist.
TooCloseNoRoot(index, act, md) ==
    \E p \in BagToSet(act) :
        LET d2 == (index[1] - p[1]) * (index[1] - p[1])
                    + (index[2] - p[2]) * (index[2] - p[2])
        IN  md > 0 /\ d2 < md

\* initiate_pieces, lines 85-90: np.sqrt(np.sum((index - p)**2)) < min_dist for
\* some p of active_cells; with an integer min_dist, d2 < min_dist^2.
TooClose(index, act, md) ==
    \E p \in BagToSet(act) :
        LET d2 == (index[1] - p[1]) * (index[1] - p[1])
                    + (index[2] - p[2]) * (index[2] - p[2])
        IN  md > 0 /\ d2 < md * md

\* initiate_pieces, lines 91-94: the drawn index passes both tests.
Qualifies(jig, act, index, md) ==
    /\ ~TooClose(index, act, md)
    /\ jig[index].empty
    /\ jig[index].active

\* initiate_pieces, lines 95-96.
PlaceSeed(jig, index, col) ==
    [jig EXCEPT ![index].color = col, ![index].empty = FALSE]

\* initiate_pieces, line 84: np.random.choice(self.res, 2).
Draws(R) == Coords(R)

\* initiate_pieces, lines 76-81: the entry into the method.
SeedBegin ==
    /\ pc = <<>>
    /\ \E np \in 1 .. MaxPieces, md \in 0 .. MaxMinDist :
         /\ num_pieces' = np
         /\ min_dist' = md
    /\ c' = 1
    /\ n' = 0
    /\ placed' = 0
    /\ pc' = <<"initiate_pieces">>
    /\ printed' = <<>>
    /\ UNCHANGED <<res, bordertype, jigsaw, active_cells, todo,
                   new_active_cells, grow_prop, k, steps, pos>>

\* initiate_pieces: the first call on this Jigsaw (num_pieces is 0 until then).
SeedOnce ==
    /\ num_pieces = 0
    /\ SeedBegin

\* initiate_pieces: a call of the public method; on the larger grid only the
\* first call is explored.
SeedCall ==
    /\ res = SmallRes + 2 \/ num_pieces = 0
    /\ SeedBegin

\* Mutant of MoreAttempts: one attempt too many.
MoreAttemptsInclusive(nn) == nn <= MaxAttempts

\* initiate_pieces, line 82: n<1000.  The other conjunct of the while
\* condition, not (d.empty and d.active), is true whenever it is evaluated: d
\* is the Dot made at line 79-80 or a cell that failed the test of line 94.
MoreAttempts(nn) == nn < MaxAttempts

\* initiate_pieces, lines 83-98: one iteration of the while loop.
SeedDraw ==
    /\ Top = "initiate_pieces"
    /\ c <= num_pieces
    /\ MoreAttempts(n)
    /\ \E index \in Draws(res) :
         \/ /\ Qualifies(jigsaw, active_cells, index, min_dist)
            /\ jigsaw' = PlaceSeed(jigsaw, index, c)
            /\ active_cells' = Add(active_cells, index)
            /\ placed' = placed + 1
            /\ c' = c + 1
            /\ n' = 0
         \/ /\ ~Qualifies(jigsaw, active_cells, index, min_dist)
            /\ n' = n + 1
            /\ UNCHANGED <<jigsaw, active_cells, placed, c>>
    /\ UNCHANGED <<res, bordertype, num_pieces, pc, min_dist, todo,
                   new_active_cells, grow_prop, k, steps, pos, printed>>

\* initiate_pieces, line 82: the while loop ends with n = 1000 and the for
\* loop goes on to the next piece.
SeedGiveUp ==
    /\ Top = "initiate_pieces"
    /\ c <= num_pieces
    /\ ~MoreAttempts(n)
    /\ c' = c + 1
    /\ n' = 0
    /\ UNCHANGED <<res, bordertype, jigsaw, num_pieces, active_cells, pc,
                   min_dist, placed, todo, new_active_cells, grow_prop, k,
                   steps, pos, printed>>

\* initiate_pieces, lines 79-98: the whole while loop of piece c in one step:
\* either some draw among the first 1000 qualifies and the seed is placed
\* there, or 1000 draws fail.
SeedPiece ==
    /\ Top = "initiate_pieces"
    /\ c <= num_pieces
    /\ c' = c + 1
    /\ \/ /\ MaxAttempts >= 1
          /\ \E index \in Draws(res) :
               /\ Qualifies(jigsaw, active_cells, index, min_dist)
               /\ jigsaw' = PlaceSeed(jigsaw, index, c)
               /\ active_cells' = Add(active_cells, index)
               /\ placed' = placed + 1
       \/ /\ \E index \in Draws(res) :
               ~Qualifies(jigsaw, active_cells, index, min_dist)
          /\ UNCHANGED <<jigsaw, active_cells, placed>>
    /\ UNCHANGED <<res, bordertype, num_pieces, pc, n, min_dist, todo,
                   new_active_cells, grow_prop, k, steps, pos, printed>>

\* initiate_pieces: the for loop is exhausted.
SeedReturn ==
    /\ Top = "initiate_pieces"
    /\ c > num_pieces
    /\ pc' = Pop
    /\ c' = 0
    /\ n' = 0
    /\ min_dist' = 0
    /\ UNCHANGED <<res, bordertype, jigsaw, num_pieces, active_cells, placed,
                   todo, new_active_cells, grow_prop, k, steps, pos, printed>>

-----------------------------------------------------------------------------
(* count *)

Claimed(jig) == {x \in DOMAIN jig : jig[x].color # None}

\* count: sizes of the pieces, the entry of None deleted (the walled cells
\* keep the color None, so the entry exists).
count(jig) ==
    [col \in {jig[x].color : x \in Claimed(jig)} |->
        Cardinality({x \in DOMAIN jig : jig[x].color = col})]

-----------------------------------------------------------------------------
(* Any sequence of calls of initiate_pieces, step, steps and complete on a  *)
(* constructed grid.                                                       *)

Next ==
    \/ SeedCall
    \/ SeedPiece
    \/ SeedReturn
    \/ StepCall
    \/ StepCell
    \/ StepReturn
    \/ StepsCall
    \/ StepsLoop
    \/ StepsCheck
    \/ StepsExhausted
    \/ CompleteCall
    \/ CompleteScan
    \/ CompleteReturn

Spec == Init /\ [][Next]_vars

-----------------------------------------------------------------------------
(* The single-piece scenario: Jigsaw(res=5), one seed of color 1 forced at   *)
(* (3,3), then one call steps(50, grow_prop=1).  The else branch of the for  *)
(* loop of steps is left out of the next-state relation: SinglePiece states  *)
(* that its guard, k = steps, is never reached.                             *)

ScenarioInit ==
    /\ res = 5 + 2
    /\ bordertype = "rect"
    /\ jigsaw = PlaceSeed(border_mask(5 + 2), <<3, 3>>, 1)
    /\ num_pieces = 1
    /\ active_cells = SetToBag({<<3, 3>>})
    /\ pc = <<>>
    /\ placed = 1
    /\ printed = <<>>
    /\ NoLocals

\* steps(50, grow_prop=1), called once.
ScenarioRun ==
    /\ pc = <<>>
    /\ printed = <<>>
    /\ StepsBegin(50, ProbDenom)
    /\ pc' = <<"steps">>
    /\ UNCHANGED <<res, bordertype, jigsaw, num_pieces, active_cells, c, n,
                   min_dist, placed, todo, new_active_cells, pos>>

NextScenario ==
    \/ ScenarioRun
    \/ StepsLoop
    \/ StepCell
    \/ StepReturn
    \/ StepsCheck

SpecScenario == ScenarioInit /\ [][NextScenario]_vars

-----------------------------------------------------------------------------
(* One Jigsaw of the larger grid: initiate_pieces is called at most once,   *)
(* before, between or after any calls of step, steps and complete.          *)

InitLarge == \E bt \in {"rect", "circ"} : Constructed(Res, bt)

NextSingleSeeding ==
    \/ SeedOnce
    \/ SeedPiece
    \/ SeedReturn
    \/ StepCall
    \/ StepCell
    \/ StepReturn
    \/ StepsCall
    \/ StepsLoop
    \/ StepsCheck
    \/ StepsExhausted
    \/ CompleteCall
    \/ CompleteScan
    \/ CompleteReturn

SpecSingleSeeding == InitLarge /\ [][NextSingleSeeding]_vars

-----------------------------------------------------------------------------
(* initiate_pieces on a freshly constructed grid, one draw at a time.       *)

NextSeeding ==
    \/ SeedOnce
    \/ SeedDraw
    \/ SeedGiveUp
    \/ SeedReturn

SpecSeeding == InitLarge /\ [][NextSeeding]_vars

-----------------------------------------------------------------------------
(* Properties *)

InSteps == \E f \in 1 .. Len(pc) : pc[f] \in {"steps", "steps_check"}

\* The cells masked at construction.
IsWalled(x) ==
    IF bordertype = "circ" THEN CircleOutside(x[1], x[2], res)
    ELSE x[1] \in {0, res - 1} \/ x[2] \in {0, res - 1}

\* C1. Bond reciprocity: in every reachable state, for every cell A and every
\* index b of A.bonds, the lookup of A.neighbors[b] succeeds and the cell it
\* yields has (b+2) mod 4 in its bonds.
BondReciprocity ==
    \A a \in Coords(res) : \A b \in jigsaw[a].bonds :
        /\ ~IndexError(neighbors(a)[b], res)
        /\ (b + 2) % 4 \in At(jigsaw, neighbors(a)[b], res).bonds

\* C1 witness: between two calls a cell holds two bonds (it was claimed and
\* has claimed) while another cell holds a bond of the filler piece.
BondReciprocityWitness ==
    /\ pc = <<>>
    /\ \E a \in Coords(res) : Cardinality(jigsaw[a].bonds) >= 2
    /\ \E a \in Coords(res) :
         jigsaw[a].color = FillerColor /\ jigsaw[a].bonds # {}

\* C2. Color immutability: no step of any operation changes the color of a
\* cell whose color is not None.
ColorImmutable ==
    [][\A x \in Coords(res) :
         jigsaw[x].color # None => jigsaw'[x].color = jigsaw[x].color]_vars

\* C2 witness: in the middle of a generation a cell claimed in this
\* generation lies diagonally next to a cell of another color that is still
\* to be visited.
ColorImmutableWitness ==
    /\ Top = "step"
    /\ \E x \in BagToSet(new_active_cells), y \in BagToSet(todo) :
         /\ ~BagIn(x, active_cells)
         /\ \E i \in 0 .. 3 : neighbors(y)[i] = x
         /\ jigsaw[x].color # jigsaw[y].color

\* C3. Coverage: when complete has scanned the whole array and returns, no
\* cell is empty and every cell that was not walled at construction has a
\* color.
Coverage ==
    (Top = "complete" /\ pos = res * res) =>
        \A x \in Coords(res) :
            /\ ~jigsaw[x].empty
            /\ ~IsWalled(x) => jigsaw[x].color # None

\* C3 witness: complete returns on a grid that holds two real pieces and
\* filler cells, one of them claimed by the growth of the filler piece.
CoverageWitness ==
    /\ Top = "complete" /\ pos = res * res
    /\ \E x \in Coords(res) :
         jigsaw[x].color = FillerColor /\ jigsaw[x].bonds # {}
    /\ \E x, y \in Coords(res) :
         /\ jigsaw[x].color \in 1 .. MaxPieces
         /\ jigsaw[y].color \in 1 .. MaxPieces
         /\ jigsaw[x].color # jigsaw[y].color

\* C4. Convergence at grow_prop=1: while steps runs with grow_prop=1, fewer
\* than res*res generations have left the active set non-empty (so the set is
\* empty after at most res*res generations and a budget of res*res is never
\* exhausted), and a generation that ends with a non-empty new active set has
\* claimed a cell that was not in the active set before.
ConvergesAtFullGrowth ==
    /\ (InSteps /\ grow_prop = ProbDenom) => k < res * res
    /\ (Top = "step" /\ grow_prop = ProbDenom /\ todo = EmptyBag
            /\ new_active_cells # EmptyBag) =>
         \E x \in BagToSet(new_active_cells) :
            ~BagIn(x, active_cells) /\ jigsaw[x].color # None

\* C4 witness: steps(res*res, grow_prop=1) on the larger grid finds the
\* active set empty after its fourth generation or later.
ConvergesAtFullGrowthWitness ==
    /\ Top = "steps_check"
    /\ res = Res + 2
    /\ steps = res * res
    /\ grow_prop = ProbDenom
    /\ NoActiveCells(active_cells)
    /\ k >= 3

\* C5 (as amended). Zero growth probability: a step with grow_prop=0 claims no
\* cell; when its loop is over, every cell of the old active set without an
\* eligible neighbour is inactive and absent from the new active set, every
\* cell with an eligible neighbour is still active and in the new active set
\* as often as in the old one, and the new set holds nothing else.
ZeroGrowthKeepsEligible ==
    /\ []((Top = "step" /\ grow_prop = 0 /\ todo = EmptyBag) =>
            /\ \A x \in BagToSet(active_cells) :
                 IF Eligible(jigsaw, x, res) = {}
                 THEN ~jigsaw[x].active /\ ~BagIn(x, new_active_cells)
                 ELSE /\ jigsaw[x].active
                      /\ CopiesIn(x, new_active_cells) = CopiesIn(x, active_cells)
            /\ BagToSet(new_active_cells) \subseteq BagToSet(active_cells))
    /\ [][(Top = "step" /\ grow_prop = 0) => Claimed(jigsaw') = Claimed(jigsaw)]_vars

\* C5 witness: a step with grow_prop=0 has visited an active set that holds a
\* cell without and a cell with an eligible neighbour.
ZeroGrowthWitness ==
    /\ Top = "step" /\ grow_prop = 0 /\ todo = EmptyBag
    /\ \E x, y \in BagToSet(active_cells) :
         /\ Eligible(jigsaw, x, res) = {}
         /\ Eligible(jigsaw, y, res) # {}

\* C5 (as claimed). After a step with grow_prop=0 every cell that was in the
\* active set has active=false and the active set is empty.
ZeroGrowthEmptiesActiveSet ==
    (Top = "step" /\ grow_prop = 0 /\ todo = EmptyBag) =>
        /\ new_active_cells = EmptyBag
        /\ \A x \in BagToSet(active_cells) : ~jigsaw[x].active

\* C7. Convergence loop: steps starts a generation after the first only if
\* the previous one left the active set non-empty; it prints nothing while it
\* runs; when the active set is empty after a generation it returns at once
\* with "Converged"; when it returns it has printed exactly one message,
\* "Converged" only after a generation that left the active set empty,
\* "DidNotConverge" only after exactly `steps` generations, each of which left
\* the active set non-empty.
ConvergenceLoop ==
    /\ [](InSteps => printed = <<>>)
    /\ [][(Top = "steps" /\ Top' = "step") =>
            /\ k < steps
            /\ k > 0 => active_cells # EmptyBag]_vars
    /\ [][(Top = "steps_check" /\ active_cells = EmptyBag) =>
            /\ pc' = Pop
            /\ printed' = <<Converged(k)>>]_vars
    /\ [][(Top \in {"steps", "steps_check"} /\ pc' = Pop) =>
            /\ Len(printed') = 1
            /\ printed'[1].msg = "Converged" =>
                 Top = "steps_check" /\ active_cells = EmptyBag
            /\ printed'[1].msg = "DidNotConverge" =>
                 /\ Top = "steps"
                 /\ k = steps
                 /\ printed'[1].at = steps
                 /\ steps > 0 => active_cells # EmptyBag]_vars

\* C7 witness: a call of steps has returned with "Converged" after its loop
\* went round more than once.
ConvergenceLoopWitness ==
    /\ pc = <<>>
    /\ Len(printed) = 1
    /\ printed[1].msg = "Converged"
    /\ printed[1].at >= 1

\* C6 (as amended). Single-piece scenario: steps(50, grow_prop=1) never
\* exhausts its budget; when it has returned it has printed "Converged", the
\* active set is empty, and count() is {1: 13}: color 1 holds exactly the 13
\* unwalled cells whose i+j has the parity of the seed's, and the 12 other
\* unwalled cells are unclaimed.
SinglePiece ==
    /\ Top = "steps" => k < steps
    /\ (pc = <<>> /\ printed # <<>>) =>
         /\ printed[1].msg = "Converged"
         /\ active_cells = EmptyBag
         /\ count(jigsaw) = [col \in {1} |-> 13]
         /\ Claimed(jigsaw) =
              {x \in Coords(res) : ~IsWalled(x) /\ (x[1] + x[2]) % 2 = 0}
         /\ Cardinality({x \in Coords(res) : jigsaw[x].empty}) = 12

\* C6 witness: the call has returned after at least four generations.
SinglePieceWitness ==
    /\ pc = <<>>
    /\ Len(printed) = 1
    /\ printed[1].at >= 3
    /\ DOMAIN count(jigsaw) = {1}

\* C6 (as claimed). At convergence count() is {1: N}, N the number of
\* unwalled cells.
SinglePieceClaimsAll ==
    (pc = <<>> /\ printed # <<>>) =>
        count(jigsaw) =
            [col \in {1} |-> Cardinality({x \in Coords(res) : ~IsWalled(x)})]

\* C8. Piece count preserved: when the one call of initiate_pieces has
\* placed every requested seed and no filler cell exists yet, count() has
\* exactly the keys 1..num_pieces, each with a positive size, in every state
\* after seeding (between and inside calls of step and steps).
PieceCountPreserved ==
    (/\ Top # "initiate_pieces"
     /\ num_pieces > 0
     /\ placed = num_pieces
     /\ \A x \in Coords(res) : jigsaw[x].color # FillerColor) =>
        /\ DOMAIN count(jigsaw) = 1 .. num_pieces
        /\ \A col \in DOMAIN count(jigsaw) : count(jigsaw)[col] > 0

\* C8 witness: two pieces were seeded and have grown until the active set
\* emptied; no filler exists.
PieceCountPreservedWitness ==
    /\ pc = <<>>
    /\ num_pieces >= 2
    /\ placed = num_pieces
    /\ active_cells = EmptyBag
    /\ \A x \in Coords(res) : jigsaw[x].color # FillerColor
    /\ \A col \in 1 .. num_pieces :
         \E x \in Coords(res) : jigsaw[x].color = col /\ jigsaw[x].bonds # {}

Dist2(x, y) == (x[1] - y[1]) * (x[1] - y[1]) + (x[2] - y[2]) * (x[2] - y[2])

\* C9. Seed separation: during and after initiate_pieces on a fresh grid the
\* claimed cells are the placed seeds: each is an unwalled cell with
\* active=true, empty=false and a color of 1..num_pieces that no other seed
\* has, the active set holds each of them exactly once, any two of them are
\* at distance >= min_dist, and a cell is only ever written while it is
\* unclaimed and not walled.
SeedSeparation ==
    /\ [](LET seeds == Claimed(jigsaw)
          IN  /\ \A x \in seeds :
                   /\ ~IsWalled(x)
                   /\ jigsaw[x].active /\ ~jigsaw[x].empty
                   /\ jigsaw[x].color \in 1 .. num_pieces
              /\ \A x, y \in seeds : x # y => jigsaw[x].color # jigsaw[y].color
              /\ active_cells = SetToBag(seeds)
              /\ placed = Cardinality(seeds)
              /\ Top = "initiate_pieces" =>
                   \A x, y \in seeds :
                       x # y => Dist2(x, y) >= min_dist * min_dist)
    /\ [][\A x \in Coords(res) :
            jigsaw'[x] # jigsaw[x] => jigsaw[x].empty /\ jigsaw[x].active]_vars

\* C9 witness: the for loop is over with two seeds placed under min_dist >= 2.
SeedSeparationWitness ==
    /\ Top = "initiate_pieces"
    /\ c > num_pieces
    /\ placed >= 2
    /\ min_dist >= 2

\* C10. Seed placement exhaustion: no piece gets more than 1000 draws; when
\* 1000 draws have failed for piece c, no cell has color c, and the next step
\* changes neither the grid nor the active set nor the number of placed seeds,
\* stays inside initiate_pieces and moves on to piece c+1; a placed seed is
\* never written again.
SeedExhaustion ==
    /\ [](n <= MaxAttempts)
    /\ []((Top = "initiate_pieces" /\ n = MaxAttempts) =>
            \A x \in Coords(res) : jigsaw[x].color # c)
    /\ [][(Top = "initiate_pieces" /\ n = MaxAttempts) =>
            /\ jigsaw' = jigsaw
            /\ active_cells' = active_cells
            /\ placed' = placed
            /\ pc' = pc
            /\ c' = c + 1
            /\ n' = 0]_vars
    /\ [][\A x \in Claimed(jigsaw) : jigsaw'[x] = jigsaw[x]]_vars

\* C10 witness: the for loop is over, piece 1 was given up after 1000 draws
\* and piece 2 was placed after it.
SeedExhaustionWitness ==
    /\ Top = "initiate_pieces"
    /\ c > num_pieces
    /\ placed = 1
    /\ \E x \in Coords(res) : jigsaw[x].color = 2
    /\ \A x \in Coords(res) : jigsaw[x].color # 1

-----------------------------------------------------------------------------
(* The mask loops of the constructor, one iteration at a time.  pos is the  *)
(* loop position: i for border_mask, i*res + j for circle_mask.             *)

\* Largest res argument of the constructor in SpecMasks.
MaxMaskRes == 5

\* self.jigsaw[x,y].active = False; self.jigsaw[x,y].empty = False for the
\* index pairs of S.
Wall(jig, S, R) ==
    [x \in DOMAIN jig |->
        IF \E p \in S : x = <<NpIndex(p[1], R), NpIndex(p[2], R)>>
        THEN [jig[x] EXCEPT !.active = FALSE, !.empty = FALSE]
        ELSE jig[x]]

\* border_mask, line 57: the index pairs of iteration i.
BorderCells(i) == {<<i, 0>>, <<i, -1>>, <<0, i>>, <<-1, i>>}

\* Jigsaw.__init__ up to the call of the mask.
InitMasks ==
    \E r \in 0 .. MaxMaskRes : \E bt \in {"rect", "circ"} :
        /\ res = r + 2
        /\ bordertype = bt
        /\ jigsaw = [x \in Coords(r + 2) |-> Dot]
        /\ num_pieces = 0
        /\ active_cells = EmptyBag
        /\ pc = IF bt = "circ" THEN <<"circle_mask">> ELSE <<"border_mask">>
        /\ placed = 0
        /\ printed = <<>>
        /\ NoLocals

\* border_mask, lines 56-59: one iteration of the loop over i.
BorderRow ==
    /\ Top = "border_mask"
    /\ pos < res
    /\ jigsaw' = Wall(jigsaw, BorderCells(pos), res)
    /\ pos' = pos + 1
    /\ UNCHANGED <<res, bordertype, num_pieces, active_cells, pc, c, n, min_dist,
                   placed, todo, new_active_cells, grow_prop, k, steps, printed>>

\* circle_mask, lines 63-69: one iteration of the loops over i and j.
CircleCell ==
    /\ Top = "circle_mask"
    /\ pos < res * res
    /\ LET i == pos \div res
           j == pos % res
       IN  jigsaw' = IF CircleOutside(i, j, res)
                     THEN Wall(jigsaw, {<<i, j>>}, res)
                     ELSE jigsaw
    /\ pos' = pos + 1
    /\ UNCHANGED <<res, bordertype, num_pieces, active_cells, pc, c, n, min_dist,
                   placed, todo, new_active_cells, grow_prop, k, steps, printed>>

\* The mask loop is over: the constructor returns.
MaskReturn ==
    /\ Top \in {"border_mask", "circle_mask"}
    /\ pos = IF Top = "border_mask" THEN res ELSE res * res
    /\ pc' = <<>>
    /\ pos' = 0
    /\ UNCHANGED <<res, bordertype, jigsaw, num_pieces, active_cells, c, n,
                   min_dist, placed, todo, new_active_cells, grow_prop, k, steps,
                   printed>>

NextMasks ==
    \/ BorderRow
    \/ CircleCell
    \/ MaskReturn

SpecMasks == InitMasks /\ [][NextMasks]_vars

\* A cell carries the two flags of a wall.
HasWallFlags(x) == jigsaw[x].active = FALSE /\ jigsaw[x].empty = FALSE

\* C11. Border mask correctness: when the constructor has returned, with the
\* rectangular border a cell has active=false and empty=false exactly if its
\* row or its column is 0 or R-1; with the circular border exactly if its
\* distance from the centre ((R-1)/2, (R-1)/2) exceeds R/2 - 1.1 (both sides
\* multiplied by 20 and squared: 100*((2i-(R-1))^2 + (2j-(R-1))^2) >
\* (10R-22)^2, or the right side negative); the walled set is unchanged by the
\* rotation (i,j) -> (j, R-1-i); every other cell is as Dot() made it; and the
\* grid is the one every other specification starts from.
BorderMaskCorrect ==
    pc = <<>> =>
        /\ bordertype = "rect" =>
             \A x \in Coords(res) :
                HasWallFlags(x) <=>
                    (x[1] \in {0, res - 1} \/ x[2] \in {0, res - 1})
        /\ bordertype = "circ" =>
             \A x \in Coords(res) :
                HasWallFlags(x) <=>
                    \/ 10 * res < 22
                    \/ 100 * ((2 * x[1] - (res - 1)) * (2 * x[1] - (res - 1))
                              + (2 * x[2] - (res - 1)) * (2 * x[2] - (res - 1)))
                         > (10 * res - 22) * (10 * res - 22)
        /\ \A x \in Coords(res) :
                HasWallFlags(x) <=> HasWallFlags(<<x[2], res - 1 - x[1]>>)
        /\ \A x \in Coords(res) : jigsaw[x] \in {Dot, Walled}
        /\ jigsaw = IF bordertype = "circ" THEN circle_mask(res)
                                           ELSE border_mask(res)

\* C11 witness: a constructed circular grid of the largest size, with a
\* walled cell off the outermost rows and columns and a cell left free.
BorderMaskWitness ==
    /\ pc = <<>>
    /\ bordertype = "circ"
    /\ res = MaxMaskRes + 2
    /\ \E x \in Coords(res) :
          /\ HasWallFlags(x)
          /\ x[1] \notin {0, res - 1}
          /\ x[2] \notin {0, res - 1}
    /\ \E x \in Coords(res) : jigsaw[x] = Dot

\* The cell a and its neighbour of index b are joined by a bond, recorded at
\* either end.
Bonded(a, b) ==
    \/ b \in jigsaw[a].bonds
    \/ ((b + 2) % 4) \in jigsaw[neighbors(a)[b]].bonds

\* C12. Planarity of the bond graph: in every reachable state no unit square
\* with corners (i,j), (i+1,j), (i,j+1), (i+1,j+1) has both the bond
\* (i,j)-(i+1,j+1) and the bond (i,j+1)-(i+1,j).
NoCrossingBonds ==
    \A i \in 0 .. res - 2 : \A j \in 0 .. res - 2 :
        ~(Bonded(<<i, j>>, 0) /\ Bonded(<<i, j + 1>>, 3))

\* C12 witness: step is about to visit a cell that has an empty neighbour it
\* may not claim, because the bond across the shared unit square exists.
NoCrossingBondsWitness ==
    /\ Top = "step"
    /\ \E coo \in BagToSet(todo) :
          /\ ~ \E p \in Lookups(coo) : IndexError(p, res)
          /\ FreeNeighbors(jigsaw, coo, res) \cap Blocked(jigsaw, coo, res) # {}

\* No call of step is running: the state is between two generations, or
\* between two calls of the public methods.
BetweenSteps == Top \in {"idle", "steps", "steps_check", "complete"}

\* C13. Active set equals claimed-active cells: after initiate_pieces, after
\* each step and after complete, active_cells holds each coordinate at most
\* once, and holds a coordinate exactly if its cell has empty=false and
\* active=true.
ActiveSetExact ==
    BetweenSteps =>
        /\ \A x \in BagToSet(active_cells) : CopiesIn(x, active_cells) = 1
        /\ BagToSet(active_cells) =
              {x \in Coords(res) : ~jigsaw[x].empty /\ jigsaw[x].active}

\* C13 witness: after a step in which one cell was claimed and another cell
\* was deactivated.
ActiveSetExactWitness ==
    /\ pc = <<>>
    /\ BagToSet(active_cells) # {}
    /\ \E x \in Coords(res) : jigsaw[x].bonds # {} /\ jigsaw[x].active
    /\ \E x \in Coords(res) : jigsaw[x].color # None /\ ~jigsaw[x].active

\* The lifecycle state of the cell of jig at x.
CellState(jig, x) ==
    IF jig[x].color = None
    THEN IF jig[x].empty THEN "UNCLAIMED" ELSE "WALLED"
    ELSE IF jig[x].active THEN "CLAIMED_ACTIVE" ELSE "CLAIMED_INACTIVE"

\* C14. Cell lifecycle: in every step of the program each cell keeps its
\* state or moves UNCLAIMED -> CLAIMED_ACTIVE or CLAIMED_ACTIVE ->
\* CLAIMED_INACTIVE; a walled cell keeps color None, empty=false,
\* active=false and no bonds; a claimed cell never becomes empty again; a
\* cell whose bonds grow (it claims or is claimed) was unclaimed or
\* claimed-active, never claimed-inactive or walled.
CellLifecycle ==
    [][\A x \in Coords(res) :
          /\ \/ CellState(jigsaw', x) = CellState(jigsaw, x)
             \/ /\ CellState(jigsaw, x) = "UNCLAIMED"
                /\ CellState(jigsaw', x) = "CLAIMED_ACTIVE"
             \/ /\ CellState(jigsaw, x) = "CLAIMED_ACTIVE"
                /\ CellState(jigsaw', x) = "CLAIMED_INACTIVE"
          /\ CellState(jigsaw, x) = "WALLED" => jigsaw'[x] = Walled
          /\ ~jigsaw[x].empty => ~jigsaw'[x].empty
          /\ jigsaw'[x].bonds # jigsaw[x].bonds =>
                CellState(jigsaw, x) \in {"UNCLAIMED", "CLAIMED_ACTIVE"}
      ]_vars

\* C14 witness: a walled cell next to a cell that was claimed by growth and
\* has since been deactivated, while another cell is still unclaimed.
CellLifecycleWitness ==
    /\ \E x \in Coords(res) :
          /\ CellState(jigsaw, x) = "CLAIMED_INACTIVE"
          /\ jigsaw[x].bonds # {}
          /\ \E b \in 0 .. 3 : CellState(jigsaw, neighbors(x)[b]) = "WALLED"
    /\ \E x \in Coords(res) : CellState(jigsaw, x) = "CLAIMED_ACTIVE"
    /\ \E x \in Coords(res) : CellState(jigsaw, x) = "UNCLAIMED"

\* The cells claimed so far by the running call of step: they are in the new
\* list and were not in the list the call started from (active_cells is
\* replaced only when the call returns).
ClaimedThisStep == BagToSet(new_active_cells) \ BagToSet(active_cells)

\* C15. One claim per active cell per generation: while a call of step runs,
\* only cells of the list it started from are visited, each at most once;
\* every cell claimed during the call has a single bond, the one to the
\* already visited cell that claimed it (so it has claimed nothing itself);
\* no cell of the starting list is bonded to two cells claimed during the
\* call; and the number of cells claimed during the call is at most the
\* number of cells visited, hence at most the size of the starting list.
OneClaimPerGeneration ==
    Top = "step" =>
        /\ todo \sqsubseteq active_cells
        /\ \A x \in ClaimedThisStep :
              /\ CopiesIn(x, new_active_cells) = 1
              /\ x \notin BagToSet(todo)
              /\ Cardinality(jigsaw[x].bonds) = 1
              /\ \A b \in jigsaw[x].bonds :
                    /\ neighbors(x)[b] \in BagToSet(active_cells)
                    /\ CopiesIn(neighbors(x)[b], todo) = 0
        /\ \A y \in BagToSet(active_cells) :
              Cardinality({b \in jigsaw[y].bonds :
                              neighbors(y)[b] \in ClaimedThisStep}) <= 1
        /\ Cardinality(ClaimedThisStep)
              <= BagCardinality(active_cells) - BagCardinality(todo)
        /\ Cardinality(ClaimedThisStep) <= BagCardinality(active_cells)

\* C15 witness: a call of step has visited all of at least two cells, one of
\* which claimed a cell while the cell it claimed stayed unvisited.
OneClaimPerGenerationWitness ==
    /\ Top = "step"
    /\ todo = EmptyBag
    /\ BagCardinality(active_cells) >= 2
    /\ ClaimedThisStep # {}
    /\ \E x \in ClaimedThisStep : FreeNeighbors(jigsaw, x, res) # {}

\* The cells that can be reached from the cells of S along bonds.
RECURSIVE BondClosure(_)
BondClosure(S) ==
    LET T == S \cup UNION {{neighbors(x)[b] : b \in jigsaw[x].bonds} : x \in S}
    IN  IF T = S THEN S ELSE BondClosure(T)

\* The cells of color col.
Piece(col) == {x \in Coords(res) : jigsaw[x].color = col}

\* C16. Piece connectivity: in every reachable state of a grid seeded once,
\* each bond joins two cells of the same color, and for every real color
\* col in 1..num_pieces the cells of that color are linked to each other (and
\* so to the seed, which is one of them) by bonds through cells of color col;
\* the bonds of the piece form a tree: one bond less than it has cells.
PieceConnected ==
    /\ \A x \in Coords(res) : \A b \in jigsaw[x].bonds :
          jigsaw[neighbors(x)[b]].color = jigsaw[x].color
    /\ \A col \in 1 .. num_pieces :
          /\ \A s \in Piece(col) : BondClosure({s}) = Piece(col)
          /\ Piece(col) # {} =>
                Cardinality({<<x, b>> \in Piece(col) \X (0 .. 3) :
                                b \in jigsaw[x].bonds})
                   = 2 * (Cardinality(Piece(col)) - 1)

\* C16 witness: two real pieces that have both grown, one of them to three
\* cells or more, and a filler cell beside them.
PieceConnectedWitness ==
    /\ num_pieces = 2
    /\ Cardinality(Piece(1)) >= 3
    /\ Cardinality(Piece(2)) >= 2
    /\ Piece(FillerColor) # {}

\* A call of complete is running.
InComplete == pc # <<>> /\ pc[1] = "complete"

\* C17. Completer grows only filler (the claim as stated): every growth run
\* launched by complete starts from an active set holding only the cell that
\* complete has just claimed, and every cell claimed while complete runs
\* gets the filler color 1000.
CompleterGrowsOnlyFiller ==
    [][InComplete =>
          /\ (Top = "complete" /\ Top' = "steps") =>
                BagCardinality(active_cells') = 1
          /\ \A x \in Coords(res) :
                (jigsaw[x].color = None /\ jigsaw'[x].color # None) =>
                    jigsaw'[x].color = FillerColor
      ]_vars

\* Parity of i+j of the coordinate x.
Parity(x) == (x[1] + x[2]) % 2

\* C18. Parity confinement: in every reachable state of a grid seeded once,
\* every bond joins two cells whose i+j have the same parity, and any two
\* cells of the same real color col in 1..num_pieces (one of them is the
\* seed of col) have the same parity.
ParityConfinement ==
    /\ \A x \in Coords(res) : \A b \in jigsaw[x].bonds :
          Parity(neighbors(x)[b]) = Parity(x)
    /\ \A x \in Coords(res) : \A y \in Coords(res) :
          (jigsaw[x].color = jigsaw[y].color
                /\ jigsaw[x].color \in 1 .. num_pieces)
             => Parity(x) = Parity(y)

\* C18 witness: two real pieces of opposite parity have both grown, and a
\* cell of one is edge-adjacent to a cell of the other.
ParityConfinementWitness ==
    \E x \in Coords(res) : \E y \in Coords(res) :
        /\ jigsaw[x].color = 1 /\ jigsaw[x].bonds # {}
        /\ jigsaw[y].color = 2 /\ jigsaw[y].bonds # {}
        /\ Parity(x) # Parity(y)
        /\ Dist2(x, y) = 1

\* The neighbour of index b of the cell at x cannot be claimed from x: it is
\* not empty, or the bond across the unit square the two cells share is
\* held by the cell above x (for b = 0, 1) or below x (for b = 2, 3).
NotClaimable(x, b) ==
    LET up   == jigsaw[<<x[1], x[2] + 1>>].bonds
        down == jigsaw[<<x[1], x[2] - 1>>].bonds
    IN  \/ ~jigsaw[neighbors(x)[b]].empty
        \/ b = 0 /\ 3 \in up
        \/ b = 1 /\ 2 \in up
        \/ b = 2 /\ 1 \in down
        \/ b = 3 /\ 0 \in down

\* C19. Deactivation is sound: in every reachable state a claimed cell with
\* active=false has no neighbour it could claim; and no step of the program
\* makes a cell empty again or removes a bond, so this stays so.
DeactivationSound ==
    /\ [](\A x \in Coords(res) :
            (jigsaw[x].color # None /\ ~jigsaw[x].active) =>
                \A b \in 0 .. 3 : NotClaimable(x, b))
    /\ [][\A x \in Coords(res) :
            /\ ~jigsaw[x].empty => ~jigsaw'[x].empty
            /\ jigsaw[x].bonds \subseteq jigsaw'[x].bonds]_vars

\* C19 witness: a cell was deactivated although one of its neighbours is
\* still empty: only a bond keeps it from growing there.
DeactivationSoundWitness ==
    \E x \in Coords(res) :
        /\ jigsaw[x].color # None
        /\ ~jigsaw[x].active
        /\ \E b \in 0 .. 3 : jigsaw[neighbors(x)[b]].empty

\* Row and column of x are in 1 .. R-2.
Interior(x) == x[1] \in 1 .. res - 2 /\ x[2] \in 1 .. res - 2

\* C20. In-bounds neighbour access: for both border types, in every
\* reachable state every cell that is empty (and so can still be seeded or
\* claimed) and every cell of the active list, of the list being visited and
\* of the new list has row and column in 1..R-2; each of the six cells step
\* reads for such a cell has both indices in 0..R-1, so no lookup is
\* negative or out of range, and no IndexError is ever raised.
InBoundsAccess ==
    /\ "IndexError" \notin {pc[f] : f \in 1 .. Len(pc)}
    /\ \A x \in Coords(res) : jigsaw[x].empty => Interior(x)
    /\ \A x \in BagToSet(active_cells) \cup BagToSet(todo)
                    \cup BagToSet(new_active_cells) :
          /\ Interior(x)
          /\ \A p \in Lookups(x) :
                p[1] \in 0 .. res - 1 /\ p[2] \in 0 .. res - 1

\* C20 witness: on the circular grid step is about to visit a cell of row 1,
\* whose neighbours are in row 0.
InBoundsAccessWitness ==
    /\ Top = "step"
    /\ bordertype = "circ"
    /\ \E coo \in BagToSet(todo) : coo[1] = 1 /\ jigsaw[coo].bonds # {}

====
